---- MODULE Spec2Model ----
(***************************************************************************)
(* Stock ledger of the inventory backend: the three handlers of the stock  *)
(* router (POST /stock/products/:id, PUT /stock/movements/:id,             *)
(* DELETE /stock/movements/:id) and the product soft delete, run against   *)
(* the products and stock_movements tables.                                *)
(*                                                                         *)
(* Every awaited database statement of a handler is one step.  Statements  *)
(* issued through pool.query read the committed tables; statements issued  *)
(* between BEGIN and COMMIT are buffered in the request (pw, mw), hold the *)
(* row lock of the row they wrote, and reach the tables at COMMIT.         *)
(***************************************************************************)
EXTENDS Integers, FiniteSets, Sequences, TLC

\* ---- bounds ------------------------------------------------------------
MaxMovementId == 3        \* ids the stock_movements serial hands out
MaxBodyQuantity == 2      \* largest quantity a request body carries
MaxUserId == 2            \* ids the users serial hands out
MaxProductId == 2         \* ids the products serial hands out
MaxCategoryId == 3        \* ids the categories serial hands out
MaxListed == 101          \* active products the list query can match
MaxLoaded == 21           \* stock movements one response of the list carries

\* ---- input domains -----------------------------------------------------
Products == {1}                    \* rows of the products table
ProductIdParams == {1, 2}          \* :id of POST /stock/products/:id (2: no row)
MovementIds == 1..MaxMovementId    \* :id of PUT/DELETE /stock/movements/:id
\* request bodies: every well-formed one, one with quantity zero, one with
\* a negative quantity and one with a type that is neither 'in' nor 'out'
Bodies ==
  [quantity : 1..MaxBodyQuantity, type : {"in", "out"}]
    \cup {[quantity |-> 0, type |-> "in"], [quantity |-> 0 - 1, type |-> "out"],
          [quantity |-> 1, type |-> "adjust"]}
\* the tables before the first request: a product row created with a
\* quantity, and the movement rows the seeding script has recorded for it
Seeds ==
  {[created |-> 2, rows |-> {}],
   [created |-> 0,
    rows |-> {[id |-> 1, product_id |-> 1, quantity |-> 2, type |-> "in"]}]}
SeqSlots == {0}                    \* serves requests one at a time
ConcSlots == {1, 2}                \* serve one request each, concurrently
Slots == SeqSlots \cup ConcSlots

VARIABLES
  products,     \* products table: id -> [quantity, is_active, sku, category_id]
  movements,    \* stock_movements table: set of rows
  nextId,       \* next value of the stock_movements id serial
  req,          \* per slot: the handler's locals and its position; history
                \* field orig: origin of the product as a delete request found
                \* it; history field stale: another request committed a write
                \* of the product after this one read it
  origin,       \* history: per product, the last committed create not yet followed
                \*          by another committed write on that product
  lastCommit,   \* history: slot of the request that committed last
  created       \* history: the quantity each product row was created with

VARIABLES
  users,        \* users table: id -> [email, password_hash, role, status]
  nextUserId,   \* next value of the users id serial
  ureq          \* per slot: the auth handler's locals and its position

stockVars == <<products, movements, nextId, req, origin, lastCommit, created>>
authVars == <<users, nextUserId, ureq>>
VARIABLES
  eh            \* the error handed to next(error) and the response to it

errVars == <<eh>>
VARIABLES
  categories,     \* categories table: id -> [name, status]
  nextCategoryId, \* next value of the categories id serial
  nextProductId,  \* next value of the products id serial
  preq            \* per slot: the locals and position of a handler of the
                  \* products or the categories router

catVars == <<categories, nextCategoryId, nextProductId, preq>>
VARIABLES
  gw,             \* a request on its way through the chain of its route
  supplierStatus  \* suppliers table: id -> status

gwVars == <<gw, supplierStatus>>
VARIABLES
  listed,         \* number of active products the list query matches
  lreq            \* the locals and position of the GET /products handler

listVars == <<listed, lreq>>
VARIABLES
  component       \* the fields of a StockListComponent and its last call

pageVars == <<component>>
\* what the stock handlers never touch
nonStock == <<authVars, errVars, catVars, gwVars, listVars, pageVars>>
\* what the auth handlers never touch
nonAuth == <<stockVars, errVars, catVars, gwVars, listVars, pageVars>>
\* what the error handler never touches
nonErr == <<stockVars, authVars, catVars, gwVars, listVars, pageVars>>
\* what the handlers of the products and categories routers never touch
nonCat == <<movements, nextId, req, origin, lastCommit, created, authVars,
            errVars, gwVars, listVars, pageVars>>
\* what the chain of a route never touches
nonGw == <<stockVars, authVars, errVars, catVars, listVars, pageVars>>
\* what the product list never touches
nonList == <<stockVars, authVars, errVars, catVars, gwVars, pageVars>>
\* what the stock list component never touches
nonPage == <<stockVars, authVars, errVars, catVars, gwVars, listVars>>
vars == <<stockVars, authVars, errVars, catVars, gwVars, listVars, pageVars>>

NoRow == [id |-> 0, product_id |-> 0, quantity |-> 0, type |-> "none"]
NoOrigin == [id |-> 0, quantity |-> 0, rows |-> {}]

Idle ==
  [kind |-> "none", pc |-> "idle", id |-> 0, quantity |-> 0, type |-> "none",
   pid |-> 0, cur |-> 0, old |-> NoRow, newQuantity |-> 0,
   pw |-> FALSE, mw |-> "none", status |-> 0, code |-> "none",
   orig |-> NoOrigin, stale |-> FALSE]

RowsOf(ms, p) == {m \in ms : m.product_id = p}
RowById(ms, i) == CHOOSE m \in ms : m.id = i
HasRow(ms, i) == \E m \in ms : m.id = i

\* signed effect of a movement row on the quantity of its product
Effect(m) == IF m.type = "in" THEN m.quantity ELSE 0 - m.quantity

RECURSIVE Net(_)
Net(ms) ==
  IF ms = {} THEN 0
  ELSE LET m == CHOOSE x \in ms : TRUE IN Effect(m) + Net(ms \ {m})

\* ---- pure computations of the handlers ---------------------------------

\* the schema with Joi's positive() left out: quantity zero or below passes
stockMovementSchemaAnyInteger(quantity, type) ==
  /\ quantity \in Int
  /\ type \in {"in", "out"}

\* stockMovementSchema.validate(req.body): quantity integer and positive,
\* type one of 'in', 'out'
stockMovementSchema(quantity, type) ==
  /\ quantity \in Int
  /\ quantity > 0
  /\ type \in {"in", "out"}

\* the test with the comparison off by one: an 'out' of the whole stock fails
InsufficientStockOffByOne(currentQuantity, type, quantity) ==
  type # "in" /\ currentQuantity <= quantity

\* POST /stock/products/:id: the INSUFFICIENT_STOCK test
InsufficientStock(currentQuantity, type, quantity) ==
  type # "in" /\ currentQuantity < quantity

\* newQuantity with the two branches exchanged
CreateNewQuantitySwapped(currentQuantity, type, quantity) ==
  IF type = "in" THEN currentQuantity - quantity
                 ELSE currentQuantity + quantity

\* POST /stock/products/:id: newQuantity
CreateNewQuantity(currentQuantity, type, quantity) ==
  IF type = "in" THEN currentQuantity + quantity
                 ELSE currentQuantity - quantity

\* quantityAfterReversal without the reversal
QuantityAfterReversalSkipped(currentProductQuantity, existingMovement) ==
  currentProductQuantity

\* PUT /stock/movements/:id: quantityAfterReversal
QuantityAfterReversal(currentProductQuantity, existingMovement) ==
  IF existingMovement.type = "in"
    THEN currentProductQuantity - existingMovement.quantity
    ELSE currentProductQuantity + existingMovement.quantity

\* PUT /stock/movements/:id: the INSUFFICIENT_STOCK test
EditInsufficientStock(quantityAfterReversal, type, quantity) ==
  type # "in" /\ quantityAfterReversal < quantity

\* PUT /stock/movements/:id: finalQuantity
FinalQuantity(quantityAfterReversal, type, quantity) ==
  IF type = "in" THEN quantityAfterReversal + quantity
                 ELSE quantityAfterReversal - quantity

\* newQuantity that reverses every movement as if it were an 'in'
DeleteNewQuantityInOnly(currentQuantity, movement) ==
  currentQuantity - movement.quantity

\* DELETE /stock/movements/:id: newQuantity
DeleteNewQuantity(currentQuantity, movement) ==
  IF movement.type = "in" THEN currentQuantity - movement.quantity
                          ELSE currentQuantity + movement.quantity

\* the test with the bound off by one: a reversal to -1 passes
NegativeStockOffByOne(newQuantity) == newQuantity < 0 - 1

\* DELETE /stock/movements/:id: the NEGATIVE_STOCK test
NegativeStock(newQuantity) == newQuantity < 0

\* ---- row locks ---------------------------------------------------------
InTx(r) == req[r].pc \notin {"idle", "done"}
InFlight(r) == InTx(r)
NoneInFlight == \A r \in Slots : ~InFlight(r)

HoldsProduct(r, p) == InTx(r) /\ req[r].pw /\ req[r].pid = p
HoldsMovement(r, i) ==
  InTx(r) /\ req[r].mw \in {"update", "delete"} /\ req[r].id = i

ProductLocked(r, p) == \E o \in Slots \ {r} : HoldsProduct(o, p)
MovementLocked(r, i) == \E o \in Slots \ {r} : HoldsMovement(o, i)

\* ---- request arrival: validation, pre-flight SELECT, checks ------------
Respond(r, rec, status, code) ==
  req' = [req EXCEPT ![r] = [rec EXCEPT !.pc = "done", !.status = status,
                                         !.code = code]]

\* a free slot takes a request; a slot that serves requests one at a time
\* takes it when no request is in flight
Arrive(r) == req[r].pc = "idle" /\ (r \in SeqSlots => NoneInFlight)

\* res.json(...) has ended the response: the slot is free for the next
\* request
ResponseSent(r) ==
  /\ req[r].pc = "done"
  /\ req' = [req EXCEPT ![r] = Idle]
  /\ UNCHANGED <<products, movements, nextId, origin, lastCommit, created, nonStock>>

\* router.post('/products/:id') up to pool.connect()
PostStock(r, id, quantity, type) ==
  /\ Arrive(r)
  /\ nextId + Cardinality({o \in Slots : req[o].pc \in {"c_update", "c_insert"}})
        <= MaxMovementId
  /\ LET rec == [Idle EXCEPT !.kind = "create", !.id = id,
                             !.quantity = quantity, !.type = type]
     IN IF ~stockMovementSchema(quantity, type)
          THEN Respond(r, rec, 400, "VALIDATION_ERROR")
        ELSE IF ~(id \in DOMAIN products /\ products[id].is_active)
          THEN Respond(r, rec, 404, "PRODUCT_NOT_FOUND")
        ELSE LET currentQuantity == products[id].quantity
                 found == [rec EXCEPT !.pid = id, !.cur = currentQuantity]
             IN IF InsufficientStock(currentQuantity, type, quantity)
                  THEN Respond(r, found, 400, "INSUFFICIENT_STOCK")
                  ELSE req' = [req EXCEPT ![r] =
                         [found EXCEPT !.pc = "c_update",
                            !.newQuantity =
                               CreateNewQuantity(currentQuantity, type, quantity)]]
  /\ UNCHANGED <<products, movements, nextId, origin, lastCommit, created, nonStock>>

\* router.put('/movements/:id') up to pool.connect()
PutMovement(r, id, quantity, type) ==
  /\ Arrive(r)
  /\ LET rec == [Idle EXCEPT !.kind = "edit", !.id = id,
                             !.quantity = quantity, !.type = type]
     IN IF ~stockMovementSchema(quantity, type)
          THEN Respond(r, rec, 400, "VALIDATION_ERROR")
        ELSE IF ~HasRow(movements, id)
          THEN Respond(r, rec, 404, "MOVEMENT_NOT_FOUND")
        ELSE LET existingMovement == RowById(movements, id)
                 currentProductQuantity ==
                    products[existingMovement.product_id].quantity
                 quantityAfterReversal ==
                    QuantityAfterReversal(currentProductQuantity, existingMovement)
                 found == [rec EXCEPT !.pid = existingMovement.product_id,
                                      !.cur = currentProductQuantity,
                                      !.old = existingMovement]
             IN IF EditInsufficientStock(quantityAfterReversal, type, quantity)
                  THEN Respond(r, found, 400, "INSUFFICIENT_STOCK")
                  ELSE req' = [req EXCEPT ![r] =
                         [found EXCEPT !.pc = "e_update_mov",
                            !.newQuantity =
                               FinalQuantity(quantityAfterReversal, type, quantity)]]
  /\ UNCHANGED <<products, movements, nextId, origin, lastCommit, created, nonStock>>

\* router.delete('/movements/:id') up to pool.connect()
DeleteMovement(r, id) ==
  /\ Arrive(r)
  /\ LET rec == [Idle EXCEPT !.kind = "delete", !.id = id]
     IN IF ~HasRow(movements, id)
          THEN Respond(r, rec, 404, "MOVEMENT_NOT_FOUND")
        ELSE LET movement == RowById(movements, id)
                 currentQuantity == products[movement.product_id].quantity
                 newQuantity == DeleteNewQuantity(currentQuantity, movement)
                 found == [rec EXCEPT !.pid = movement.product_id,
                                      !.cur = currentQuantity,
                                      !.old = movement,
                                      !.orig = origin[movement.product_id]]
             IN IF NegativeStock(newQuantity)
                  THEN Respond(r, found, 400, "NEGATIVE_STOCK")
                  ELSE req' = [req EXCEPT ![r] =
                         [found EXCEPT !.pc = "d_update_prod",
                                       !.newQuantity = newQuantity]]
  /\ UNCHANGED <<products, movements, nextId, origin, lastCommit, created, nonStock>>

\* ---- statements between BEGIN and COMMIT -------------------------------

\* UPDATE products SET quantity = $1 WHERE id = $2 (all three handlers)
UpdateProductQuantity(r) ==
  /\ req[r].pc \in {"c_update", "e_update_prod", "d_update_prod"}
  /\ ~ProductLocked(r, req[r].pid)
  /\ req' = [req EXCEPT ![r].pw = TRUE,
                        ![r].pc = CASE req[r].pc = "c_update" -> "c_insert"
                                    [] req[r].pc = "e_update_prod" -> "commit"
                                    [] OTHER -> "d_delete"]
  /\ UNCHANGED <<products, movements, nextId, origin, lastCommit, created, nonStock>>

\* INSERT INTO stock_movements (...): the serial advances at once
InsertMovement(r) ==
  /\ req[r].pc = "c_insert"
  /\ nextId' = nextId + 1
  /\ req' = [req EXCEPT ![r].mw = "insert", ![r].pc = "commit",
                        ![r].old = [id |-> nextId, product_id |-> req[r].id,
                                    quantity |-> req[r].quantity,
                                    type |-> req[r].type]]
  /\ UNCHANGED <<products, movements, origin, lastCommit, created, nonStock>>

\* UPDATE stock_movements SET quantity = $1, type = $2, ... WHERE id = $6
UpdateMovementRow(r) ==
  /\ req[r].pc = "e_update_mov"
  /\ ~MovementLocked(r, req[r].id)
  /\ req' = [req EXCEPT ![r].pc = "e_update_prod",
                        ![r].mw = IF HasRow(movements, req[r].id)
                                    THEN "update" ELSE "miss"]
  /\ UNCHANGED <<products, movements, nextId, origin, lastCommit, created, nonStock>>

\* DELETE FROM stock_movements WHERE id = $1
DeleteMovementRow(r) ==
  /\ req[r].pc = "d_delete"
  /\ ~MovementLocked(r, req[r].id)
  /\ req' = [req EXCEPT ![r].pc = "commit",
                        ![r].mw = IF HasRow(movements, req[r].id)
                                    THEN "delete" ELSE "miss"]
  /\ UNCHANGED <<products, movements, nextId, origin, lastCommit, created, nonStock>>

\* the quantity written as a change of the committed value
\* (SET quantity = quantity + delta) instead of the value computed from the read
CommittedProductsRelative(r) ==
  IF req[r].pw
    THEN [products EXCEPT ![req[r].pid].quantity =
             @ + (req[r].newQuantity - req[r].cur)]
    ELSE products

\* the tables after the buffered writes of r are applied
CommittedProducts(r) ==
  IF req[r].pw
    THEN [products EXCEPT ![req[r].pid].quantity = req[r].newQuantity]
    ELSE products

CommittedMovements(r) ==
  CASE req[r].mw = "insert" -> movements \cup {req[r].old}
    [] req[r].mw = "update" ->
         {IF m.id = req[r].id
            THEN [m EXCEPT !.quantity = req[r].quantity, !.type = req[r].type]
            ELSE m : m \in movements}
    [] req[r].mw = "delete" -> {m \in movements : m.id # req[r].id}
    [] OTHER -> movements

\* COMMIT, then res.json({success: true, ...})
Commit(r) ==
  /\ req[r].pc = "commit"
  /\ products' = CommittedProducts(r)
  /\ movements' = CommittedMovements(r)
  /\ origin' = [origin EXCEPT ![req[r].pid] =
                  IF req[r].kind = "create"
                    THEN [id |-> req[r].old.id,
                          quantity |-> products[req[r].pid].quantity,
                          rows |-> RowsOf(movements, req[r].pid)]
                    ELSE NoOrigin]
  /\ lastCommit' = r
  /\ req' = [o \in Slots |->
               IF o = r
                 THEN [req[r] EXCEPT !.pc = "done", !.pw = FALSE, !.mw = "none",
                                     !.status = 200, !.code = "OK"]
               ELSE IF InTx(o) /\ req[o].pid = req[r].pid
                 THEN [req[o] EXCEPT !.stale = TRUE]
                 ELSE req[o]]
  /\ UNCHANGED <<nextId, created, nonStock>>

\* ---- failure of a statement --------------------------------------------

\* the lock r's next statement waits for is held by o
WaitsOn(r, o) ==
  /\ r # o
  /\ \/ /\ req[r].pc \in {"c_update", "e_update_prod", "d_update_prod"}
        /\ HoldsProduct(o, req[r].pid)
     \/ /\ req[r].pc \in {"e_update_mov", "d_delete"}
        /\ HoldsMovement(o, req[r].id)

\* the database breaks a lock cycle by failing the statement of one waiter
DeadlockAbort(r) ==
  /\ \E o \in Slots : WaitsOn(r, o) /\ WaitsOn(o, r)
  /\ req' = [req EXCEPT ![r].pc = "rollback"]
  /\ UNCHANGED <<products, movements, nextId, origin, lastCommit, created, nonStock>>

\* catch (error) { ROLLBACK; throw } finally { release } -> errorHandler: 500
Rollback(r) ==
  /\ req[r].pc = "rollback"
  /\ req' = [req EXCEPT ![r].pc = "done", ![r].pw = FALSE, ![r].mw = "none",
                        ![r].status = 500, ![r].code = "INTERNAL_SERVER_ERROR"]
  /\ UNCHANGED <<products, movements, nextId, origin, lastCommit, created, nonStock>>

\* ---- DELETE /products/:id ----------------------------------------------
\* UPDATE products SET is_active = false WHERE id = $1 AND is_active = true
DeleteProduct(id) ==
  /\ id \in DOMAIN products
  /\ products[id].is_active
  /\ \A r \in Slots : ~HoldsProduct(r, id)
  /\ products' = [products EXCEPT ![id].is_active = FALSE]
  /\ UNCHANGED <<movements, nextId, req, origin, lastCommit, created, nonStock>>

\* DELETE /products/:id served while no stock request is in flight
DeleteProductRequest(id) == NoneInFlight /\ DeleteProduct(id)

\* ==== central error handler (errorHandler middleware) ====================
\* the properties of an error the handler looks at; "undef" and 0: absent
Errors ==
  [isJoi : BOOLEAN,
   name : {"Error", "JsonWebTokenError", "TokenExpiredError"},
   code : {"undef", "23505", "23503", "INSUFFICIENT_STOCK"},
   statusCode : {0, 400, 404},
   message : {"failed"}]
\* an error of the database driver: err.code is the SQLSTATE
PgError(sqlstate) ==
  [isJoi |-> FALSE, name |-> "error", code |-> sqlstate, statusCode |-> 0,
   message |-> "failed"]

NoResponse ==
  [status |-> 0, success |-> TRUE, code |-> "none", message |-> "none",
   timestamp |-> FALSE]
ErrorBody(status, code, message) ==
  [status |-> status, success |-> FALSE, code |-> code, message |-> message,
   timestamp |-> TRUE]

errorHandlerDatabaseFirst(err) ==
  IF err.code = "23505" THEN ErrorBody(409, "DUPLICATE_ENTRY", "Record already exists")
  ELSE IF err.code = "23503"
  THEN ErrorBody(400, "FOREIGN_KEY_VIOLATION", "Referenced record does not exist")
  ELSE IF err.isJoi THEN ErrorBody(400, "VALIDATION_ERROR", "Validation failed")
  ELSE IF err.name = "JsonWebTokenError"
  THEN ErrorBody(401, "INVALID_TOKEN", "Invalid token")
  ELSE IF err.name = "TokenExpiredError"
  THEN ErrorBody(401, "TOKEN_EXPIRED", "Token expired")
  ELSE IF err.statusCode # 0
  THEN ErrorBody(err.statusCode,
                 IF err.code # "undef" THEN err.code ELSE "CUSTOM_ERROR",
                 err.message)
  ELSE ErrorBody(500, "INTERNAL_SERVER_ERROR", "Something went wrong")
\* errorHandler(err, req, res, next): the response it sends
errorHandler(err) ==
  IF err.isJoi THEN ErrorBody(400, "VALIDATION_ERROR", "Validation failed")
  ELSE IF err.name = "JsonWebTokenError"
  THEN ErrorBody(401, "INVALID_TOKEN", "Invalid token")
  ELSE IF err.name = "TokenExpiredError"
  THEN ErrorBody(401, "TOKEN_EXPIRED", "Token expired")
  ELSE IF err.code = "23505"
  THEN ErrorBody(409, "DUPLICATE_ENTRY", "Record already exists")
  ELSE IF err.code = "23503"
  THEN ErrorBody(400, "FOREIGN_KEY_VIOLATION", "Referenced record does not exist")
  ELSE IF err.statusCode # 0
  THEN ErrorBody(err.statusCode,
                 IF err.code # "undef" THEN err.code ELSE "CUSTOM_ERROR",
                 err.message)
  ELSE ErrorBody(500, "INTERNAL_SERVER_ERROR", "Something went wrong")

ErrIdle == [pc |-> "idle", err |-> PgError("undef"), res |-> NoResponse,
            sent |-> 0]

\* a handler's catch block calls next(error)
NextError(err) ==
  /\ eh.pc = "idle"
  /\ eh' = [ErrIdle EXCEPT !.pc = "raised", !.err = err]
  /\ UNCHANGED nonErr

\* Express calls errorHandler with the error; every branch of it sends one
\* response and returns
HandleError ==
  /\ eh.pc = "raised"
  /\ eh' = [eh EXCEPT !.pc = "done", !.res = errorHandler(eh.err),
                      !.sent = eh.sent + 1]
  /\ UNCHANGED nonErr

ErrorResponseSent ==
  /\ eh.pc = "done"
  /\ eh' = ErrIdle
  /\ UNCHANGED nonErr

InitErr == eh = ErrIdle

NextErr ==
  \/ \E err \in Errors : NextError(err)
  \/ HandleError
  \/ ErrorResponseSent

\* ==== users and authentication (auth router) =============================
\* ---- input domains -----------------------------------------------------
Emails ==
  {"admin@inventory.com", "clerk@inventory.com", "buyer@inventory.com"}
\* email values of request bodies: the addresses above, an address no user
\* has, and a string that is not an address
BodyEmails == Emails \cup {"ghost@inventory.com", "not-an-address"}
Passwords == {"secret1", "secret2"}
\* password values of request bodies: the passwords above and one shorter
\* than six characters
BodyPasswords == Passwords \cup {"abc"}
Roles == {"user", "admin"}
Statuses == {"active", "inactive"}
UserIdParams == 1..MaxUserId
AuthSeqSlots == {0}                \* serves requests one at a time
AuthConcSlots == {1, 2}            \* serve one request each, concurrently
AuthSlots == AuthSeqSlots \cup AuthConcSlots

NoUser == [id |-> 0, email |-> "none", password_hash |-> "none",
           role |-> "none", status |-> "none"]
NoToken == [userId |-> 0, email |-> "none"]
AuthIdle ==
  [kind |-> "none", pc |-> "idle", id |-> 0, email |-> "none",
   password |-> "none", role |-> "none", bodyStatus |-> "none",
   user |-> NoUser, status |-> 0, code |-> "none", token |-> NoToken]

\* Joi.string().email()
IsEmail(s) == s \in Emails \cup {"ghost@inventory.com"}
\* loginSchema: email an address, password of at least six characters
loginSchema(email, password) == IsEmail(email) /\ Len(password) >= 6
\* registerSchema: as loginSchema, role 'user' or 'admin' (default 'user'),
\* status 'active' or 'inactive' (default 'active'); "undef": field absent
registerSchema(email, password, role, status) ==
  /\ IsEmail(email) /\ Len(password) >= 6
  /\ role \in Roles \cup {"undef"}
  /\ status \in Statuses \cup {"undef"}

\* bcrypt.hash(password, saltRounds)
BcryptHash(password) == <<"$2a$10$", password>>
BcryptCompareAny(password, hash) == hash[1] = "$2a$10$"
\* bcrypt.compare(password, hash)
BcryptCompare(password, hash) == hash = BcryptHash(password)

\* jwt.sign({ userId, email }, JWT_SECRET)
JwtSign(user) == [userId |-> user.id, email |-> user.email]

\* SELECT ... FROM users WHERE email = $1
UsersByEmail(email) ==
  {[id |-> i, email |-> users[i].email,
    password_hash |-> users[i].password_hash,
    role |-> users[i].role, status |-> users[i].status] :
      i \in {j \in DOMAIN users : users[j].email = email}}
\* SELECT ... FROM users WHERE id = $1
UserById(id) ==
  [id |-> id, email |-> users[id].email,
   password_hash |-> users[id].password_hash,
   role |-> users[id].role, status |-> users[id].status]
\* SELECT COUNT(*) FROM users WHERE role = 'admin' AND status = 'active'
ActiveAdminCount ==
  Cardinality({i \in DOMAIN users :
                 users[i].role = "admin" /\ users[i].status = "active"})

AuthInFlight(r) == ureq[r].pc \notin {"idle", "done"}
AuthArrive(r) ==
  ureq[r].pc = "idle" /\ (r \in AuthSeqSlots => \A o \in AuthSlots : ~AuthInFlight(o))
AuthRespond(r, rec, status, code) ==
  ureq' = [ureq EXCEPT ![r] = [rec EXCEPT !.pc = "done", !.status = status,
                                           !.code = code]]

\* router.post('/login')
Login(r, email, password) ==
  /\ AuthArrive(r)
  /\ LET rec == [AuthIdle EXCEPT !.kind = "login", !.email = email,
                                 !.password = password]
         rows == UsersByEmail(email)
     IN IF ~loginSchema(email, password)
        THEN AuthRespond(r, rec, 400, "VALIDATION_ERROR")
        ELSE IF rows = {}
        THEN AuthRespond(r, rec, 401, "INVALID_CREDENTIALS")
        ELSE LET user == CHOOSE u \in rows : TRUE
             IN IF ~BcryptCompare(password, user.password_hash)
                THEN AuthRespond(r, [rec EXCEPT !.user = user], 401,
                                 "INVALID_CREDENTIALS")
                ELSE AuthRespond(r, [rec EXCEPT !.user = user,
                                                !.token = JwtSign(user)],
                                 200, "OK")
  /\ UNCHANGED <<users, nextUserId, nonAuth>>

\* bodies of POST /auth/register and POST /auth/users
RegisterBodies ==
  [email : Emails, password : {"secret1"}, role : Roles \cup {"undef"},
   status : {"undef", "inactive"}]
    \cup {[email |-> "not-an-address", password |-> "secret1",
           role |-> "user", status |-> "undef"],
          [email |-> "clerk@inventory.com", password |-> "abc",
           role |-> "user", status |-> "undef"],
          [email |-> "clerk@inventory.com", password |-> "secret1",
           role |-> "root", status |-> "undef"]}

\* the serial has a value left for every INSERT that may still be issued
UserIdLeft ==
  nextUserId + Cardinality({o \in AuthSlots : ureq[o].pc = "u_insert"})
    <= MaxUserId

\* router.post('/register') up to the INSERT; the INSERT names no status
Register(r, b) ==
  /\ AuthArrive(r)
  /\ UserIdLeft
  /\ LET rec == [AuthIdle EXCEPT
                   !.kind = "register", !.email = b.email,
                   !.password = b.password,
                   !.role = IF b.role = "undef" THEN "user" ELSE b.role,
                   !.bodyStatus = "active"]
     IN IF ~registerSchema(b.email, b.password, b.role, b.status)
        THEN AuthRespond(r, rec, 400, "VALIDATION_ERROR")
        ELSE IF UsersByEmail(b.email) # {}
        THEN AuthRespond(r, rec, 409, "EMAIL_EXISTS")
        ELSE ureq' = [ureq EXCEPT ![r] = [rec EXCEPT !.pc = "u_insert"]]
  /\ UNCHANGED <<users, nextUserId, nonAuth>>

\* router.post('/users') up to the INSERT; status = req.body.status || 'active'
CreateUser(r, b) ==
  /\ AuthArrive(r)
  /\ UserIdLeft
  /\ LET rec == [AuthIdle EXCEPT
                   !.kind = "create", !.email = b.email,
                   !.password = b.password,
                   !.role = IF b.role = "undef" THEN "user" ELSE b.role,
                   !.bodyStatus =
                      IF b.status = "undef" THEN "active" ELSE b.status]
     IN IF ~registerSchema(b.email, b.password, b.role, b.status)
        THEN AuthRespond(r, rec, 400, "VALIDATION_ERROR")
        ELSE IF UsersByEmail(b.email) # {}
        THEN AuthRespond(r, rec, 409, "EMAIL_EXISTS")
        ELSE ureq' = [ureq EXCEPT ![r] = [rec EXCEPT !.pc = "u_insert"]]
  /\ UNCHANGED <<users, nextUserId, nonAuth>>

\* INSERT INTO users ...: the serial advances whether or not the row is
\* stored; a second row with the email violates UNIQUE(email), error 23505,
\* which next(error) hands to the error handler
InsertUser(r) ==
  /\ ureq[r].pc = "u_insert"
  /\ nextUserId' = nextUserId + 1
  /\ IF UsersByEmail(ureq[r].email) # {}
     THEN /\ AuthRespond(r, ureq[r], errorHandler(PgError("23505")).status,
                          errorHandler(PgError("23505")).code)
          /\ users' = users
     ELSE LET row == [email |-> ureq[r].email,
                      password_hash |-> BcryptHash(ureq[r].password),
                      role |-> ureq[r].role, status |-> ureq[r].bodyStatus]
          IN /\ users' = users @@ (nextUserId :> row)
             /\ AuthRespond(r, [ureq[r] EXCEPT !.id = nextUserId], 201, "OK")
  /\ UNCHANGED nonAuth

\* bodies of PUT /auth/users/:id: one field each, and the empty body
Undef == [email |-> "undef", password |-> "undef", role |-> "undef",
          status |-> "undef"]
PutUserBodies ==
  {Undef}
    \cup {[Undef EXCEPT !.email = e] : e \in Emails \cup {"not-an-address"}}
    \cup {[Undef EXCEPT !.password = p] : p \in {"secret2", "abc"}}
    \cup {[Undef EXCEPT !.role = x] : x \in Roles}
    \cup {[Undef EXCEPT !.status = x] : x \in Statuses}

\* updateUserSchema: every field optional
updateUserSchema(b) ==
  /\ b.email = "undef" \/ IsEmail(b.email)
  /\ b.password = "undef" \/ Len(b.password) >= 6
  /\ b.role \in Roles \cup {"undef"}
  /\ b.status \in Statuses \cup {"undef"}

\* router.put('/users/:id') up to its second statement
PutUser(r, id, b) ==
  /\ AuthArrive(r)
  /\ LET rec == [AuthIdle EXCEPT
                   !.kind = "put", !.id = id, !.email = b.email,
                   !.password = b.password, !.role = b.role,
                   !.bodyStatus = b.status]
     IN IF ~updateUserSchema(b)
        THEN AuthRespond(r, rec, 400, "VALIDATION_ERROR")
        ELSE IF id \notin DOMAIN users
        THEN AuthRespond(r, rec, 404, "USER_NOT_FOUND")
        ELSE IF b.email # "undef"
        THEN ureq' = [ureq EXCEPT ![r] = [rec EXCEPT !.pc = "p_email",
                                                     !.user = UserById(id)]]
        ELSE IF b = Undef
        THEN AuthRespond(r, rec, 400, "NO_UPDATES")
        ELSE ureq' = [ureq EXCEPT ![r] = [rec EXCEPT !.pc = "p_update",
                                                     !.user = UserById(id)]]
  /\ UNCHANGED <<users, nextUserId, nonAuth>>

\* SELECT id FROM users WHERE email = $1 AND id != $2
EmailCheck(r) ==
  /\ ureq[r].pc = "p_email"
  /\ IF \E u \in UsersByEmail(ureq[r].email) : u.id # ureq[r].id
     THEN AuthRespond(r, ureq[r], 409, "EMAIL_EXISTS")
     ELSE ureq' = [ureq EXCEPT ![r].pc = "p_update"]
  /\ UNCHANGED <<users, nextUserId, nonAuth>>

\* the row as UPDATE users SET <fields of the body> leaves it
UpdatedUser(row, rec) ==
  [email |-> IF rec.email = "undef" THEN row.email ELSE rec.email,
   password_hash |-> IF rec.password = "undef" THEN row.password_hash
                     ELSE BcryptHash(rec.password),
   role |-> IF rec.role = "undef" THEN row.role ELSE rec.role,
   status |-> IF rec.bodyStatus = "undef" THEN row.status ELSE rec.bodyStatus]

\* UPDATE users SET ... WHERE id = $n of router.put('/users/:id')
UpdateUser(r) ==
  /\ ureq[r].pc = "p_update"
  /\ IF /\ ureq[r].email # "undef"
        /\ \E u \in UsersByEmail(ureq[r].email) : u.id # ureq[r].id
     THEN /\ AuthRespond(r, ureq[r], errorHandler(PgError("23505")).status,
                          errorHandler(PgError("23505")).code)
          /\ users' = users
     ELSE /\ users' = [users EXCEPT
                         ![ureq[r].id] = UpdatedUser(users[ureq[r].id], ureq[r])]
          /\ AuthRespond(r, ureq[r], 200, "OK")
  /\ UNCHANGED <<nextUserId, nonAuth>>

\* router.delete('/users/:id') up to its second statement
DeleteUser(r, id) ==
  /\ AuthArrive(r)
  /\ LET rec == [AuthIdle EXCEPT !.kind = "delete", !.id = id,
                                 !.bodyStatus = "inactive"]
     IN IF id \notin DOMAIN users
        THEN AuthRespond(r, rec, 404, "USER_NOT_FOUND")
        ELSE LET userToDelete == UserById(id)
             IN ureq' = [ureq EXCEPT ![r] =
                  [rec EXCEPT !.user = userToDelete,
                              !.pc = IF userToDelete.role = "admin"
                                     THEN "s_count" ELSE "s_update"]]
  /\ UNCHANGED <<users, nextUserId, nonAuth>>

\* router.patch('/users/:id/status') up to its second statement
PatchUserStatus(r, id, status) ==
  /\ AuthArrive(r)
  /\ LET rec == [AuthIdle EXCEPT !.kind = "status", !.id = id,
                                 !.bodyStatus = status]
     IN IF status \notin Statuses
        THEN AuthRespond(r, rec, 400, "INVALID_STATUS")
        ELSE IF id \notin DOMAIN users
        THEN AuthRespond(r, rec, 404, "USER_NOT_FOUND")
        ELSE LET userToUpdate == UserById(id)
             IN ureq' = [ureq EXCEPT ![r] =
                  [rec EXCEPT !.user = userToUpdate,
                              !.pc = IF status = "inactive"
                                        /\ userToUpdate.role = "admin"
                                     THEN "s_count" ELSE "s_update"]]
  /\ UNCHANGED <<users, nextUserId, nonAuth>>

LastAdminNone(count) == count < 1
\* parseInt(adminCount.rows[0].count) <= 1
LastAdmin(count) == count <= 1

\* SELECT COUNT(*) ... of both handlers, and the LAST_ADMIN test
CountAdmins(r) ==
  /\ ureq[r].pc = "s_count"
  /\ IF LastAdmin(ActiveAdminCount)
     THEN AuthRespond(r, ureq[r], 400, "LAST_ADMIN")
     ELSE ureq' = [ureq EXCEPT ![r].pc = "s_update"]
  /\ UNCHANGED <<users, nextUserId, nonAuth>>

\* UPDATE users SET status = $1 WHERE id = $2 of both handlers
UpdateUserStatus(r) ==
  /\ ureq[r].pc = "s_update"
  /\ users' = [users EXCEPT ![ureq[r].id].status = ureq[r].bodyStatus]
  /\ AuthRespond(r, ureq[r], 200, "OK")
  /\ UNCHANGED <<nextUserId, nonAuth>>

\* res.json(...) has ended the response: the slot is free for the next
\* request
AuthResponseSent(r) ==
  /\ ureq[r].pc = "done"
  /\ ureq' = [ureq EXCEPT ![r] = AuthIdle]
  /\ UNCHANGED <<users, nextUserId, nonAuth>>

AuthReceive(r) ==
  \/ \E e \in BodyEmails, p \in BodyPasswords : Login(r, e, p)
  \/ \E b \in RegisterBodies : Register(r, b)
  \/ \E b \in RegisterBodies : CreateUser(r, b)
  \/ \E id \in UserIdParams, b \in PutUserBodies : PutUser(r, id, b)
  \/ \E id \in UserIdParams : DeleteUser(r, id)
  \/ \E id \in UserIdParams, s \in Statuses \cup {"archived"} :
        PatchUserStatus(r, id, s)

AuthStatement(r) ==
  \/ InsertUser(r)
  \/ EmailCheck(r)
  \/ UpdateUser(r)
  \/ CountAdmins(r)
  \/ UpdateUserStatus(r)

InitAuth ==
  /\ users = (1 :> [email |-> "admin@inventory.com",
                    password_hash |-> BcryptHash("secret1"),
                    role |-> "admin", status |-> "active"])
  /\ nextUserId = 2
  /\ ureq = [r \in AuthSlots |-> AuthIdle]

NextAuth ==
  \E r \in AuthSeqSlots :
     AuthReceive(r) \/ AuthStatement(r) \/ AuthResponseSent(r)

\* ==== products and categories (products router, categories router) =======
\* ---- input domains -----------------------------------------------------
Skus == {"LAPTOP-001", "MOUSE-002", "DESK-003"}
CategoryNames == {"Electronics", "Books", "Clothing"}
Suppliers == {1}                   \* rows of the suppliers table
ProductParams == 1..MaxProductId   \* :id of PUT and DELETE /products/:id
CategoryParams == 1..MaxCategoryId \* :id of DELETE /categories/:id
\* request bodies of POST /products and PUT /products/:id: the well-formed
\* ones over a category and a supplier that exist or not (9: no row), and
\* one whose sku is shorter than three characters
ProductBodies ==
  [sku : Skus, categoryId : {1, 2, 9}, supplierId : {1, 9}, quantity : {1}]
    \cup {[sku |-> "ab", categoryId |-> 1, supplierId |-> 1, quantity |-> 0]}
CatSeqSlots == {0}                 \* serves requests one at a time
CatConcSlots == {1, 2}             \* serve one request each, concurrently
CatSlots == CatSeqSlots \cup CatConcSlots

CatIdle ==
  [kind |-> "none", pc |-> "idle", id |-> 0, sku |-> "none",
   categoryId |-> 0, supplierId |-> 0, quantity |-> 0, name |-> "none",
   rows |-> {}, status |-> 0, code |-> "none"]

\* productSchema: sku of 3 to 100 characters, categoryId and supplierId
\* positive integers, quantity a non-negative integer
productSchema(b) ==
  /\ Len(b.sku) >= 3 /\ Len(b.sku) <= 100
  /\ b.categoryId \in Nat \ {0}
  /\ b.supplierId \in Nat \ {0}
  /\ b.quantity \in Nat
\* categorySchema: name of 2 to 255 characters
categorySchema(name) == Len(name) >= 2 /\ Len(name) <= 255

\* SELECT id FROM products WHERE sku = $1
ProductsBySku(sku) == {i \in DOMAIN products : products[i].sku = sku}
\* SELECT id FROM categories WHERE name = $1
CategoriesByName(name) == {i \in DOMAIN categories : categories[i].name = name}

CatInFlight(r) == preq[r].pc \notin {"idle", "done"}
CatNoneInFlight == \A r \in CatSlots : ~CatInFlight(r)
CatArrive(r) == preq[r].pc = "idle" /\ (r \in CatSeqSlots => CatNoneInFlight)
CatRespond(r, rec, status, code) ==
  preq' = [preq EXCEPT ![r] = [rec EXCEPT !.pc = "done", !.status = status,
                                           !.code = code]]
\* catch (error) { next(error) }: the error handler answers
CatFail(r, err) ==
  CatRespond(r, preq[r], errorHandler(err).status, errorHandler(err).code)

\* the serial has a value left for every INSERT that may still be issued
ProductIdLeft ==
  nextProductId
    + Cardinality({o \in CatSlots :
                     preq[o].kind = "post" /\ CatInFlight(o)})
    <= MaxProductId

SkuExistsActiveOnly(sku) ==
  \E i \in ProductsBySku(sku) : products[i].is_active
\* existingProduct.rows.length > 0 of router.post('/')
SkuExists(sku) == ProductsBySku(sku) # {}

\* router.post('/') of the products router up to its second statement
PostProduct(r, b) ==
  /\ CatArrive(r)
  /\ r \in CatSeqSlots => ProductIdLeft
  /\ LET rec == [CatIdle EXCEPT !.kind = "post", !.sku = b.sku,
                                !.categoryId = b.categoryId,
                                !.supplierId = b.supplierId,
                                !.quantity = b.quantity]
     IN IF ~productSchema(b)
        THEN CatRespond(r, rec, 400, "VALIDATION_ERROR")
        ELSE IF SkuExists(b.sku)
        THEN CatRespond(r, rec, 409, "SKU_EXISTS")
        ELSE preq' = [preq EXCEPT ![r] = [rec EXCEPT !.pc = "category"]]
  /\ UNCHANGED <<products, categories, nextProductId, nextCategoryId, nonCat>>

\* SELECT id FROM categories WHERE id = $1 of router.post('/')
CheckCategory(r) ==
  /\ preq[r].pc = "category"
  /\ IF preq[r].categoryId \notin DOMAIN categories
     THEN CatRespond(r, preq[r], 400, "CATEGORY_NOT_FOUND")
     ELSE preq' = [preq EXCEPT ![r].pc = "supplier"]
  /\ UNCHANGED <<products, categories, nextProductId, nextCategoryId, nonCat>>

\* SELECT id FROM suppliers WHERE id = $1 of both handlers
CheckSupplier(r) ==
  /\ preq[r].pc = "supplier"
  /\ IF preq[r].supplierId \notin Suppliers
     THEN CatRespond(r, preq[r], 400, "SUPPLIER_NOT_FOUND")
     ELSE preq' = [preq EXCEPT ![r].pc =
                     IF preq[r].kind = "post" THEN "insert" ELSE "update"]
  /\ UNCHANGED <<products, categories, nextProductId, nextCategoryId, nonCat>>

\* the INSERT against a table whose sku column has no UNIQUE constraint
InsertProductNoUnique(r) ==
  /\ preq[r].pc = "insert"
  /\ nextProductId' = nextProductId + 1
  /\ LET row == [quantity |-> preq[r].quantity, is_active |-> TRUE,
                 sku |-> preq[r].sku, category_id |-> preq[r].categoryId]
     IN /\ products' = products @@ (nextProductId :> row)
        /\ CatRespond(r, [preq[r] EXCEPT !.id = nextProductId], 201, "OK")
  /\ UNCHANGED <<categories, nextCategoryId, nonCat>>

\* INSERT INTO products ...: the serial advances whether or not the row is
\* stored; a second row with the sku violates UNIQUE(sku), error 23505
InsertProduct(r) ==
  /\ preq[r].pc = "insert"
  /\ nextProductId' = nextProductId + 1
  /\ IF ProductsBySku(preq[r].sku) # {}
     THEN /\ CatFail(r, PgError("23505"))
          /\ products' = products
     ELSE LET row == [quantity |-> preq[r].quantity, is_active |-> TRUE,
                      sku |-> preq[r].sku,
                      category_id |-> preq[r].categoryId]
          IN /\ products' = products @@ (nextProductId :> row)
             /\ CatRespond(r, [preq[r] EXCEPT !.id = nextProductId], 201, "OK")
  /\ UNCHANGED <<categories, nextCategoryId, nonCat>>

\* router.put('/:id') of the products router up to its second statement
PutProduct(r, id, b) ==
  /\ CatArrive(r)
  /\ LET rec == [CatIdle EXCEPT !.kind = "put", !.id = id, !.sku = b.sku,
                                !.categoryId = b.categoryId,
                                !.supplierId = b.supplierId,
                                !.quantity = b.quantity]
     IN IF ~productSchema(b)
        THEN CatRespond(r, rec, 400, "VALIDATION_ERROR")
        ELSE IF ~(id \in DOMAIN products /\ products[id].is_active)
        THEN CatRespond(r, rec, 404, "PRODUCT_NOT_FOUND")
        ELSE preq' = [preq EXCEPT ![r] = [rec EXCEPT !.pc = "sku"]]
  /\ UNCHANGED <<products, categories, nextProductId, nextCategoryId, nonCat>>

\* SELECT id FROM products WHERE sku = $1 AND id != $2
SkuCheck(r) ==
  /\ preq[r].pc = "sku"
  /\ IF ProductsBySku(preq[r].sku) \ {preq[r].id} # {}
     THEN CatRespond(r, preq[r], 409, "SKU_EXISTS")
     ELSE preq' = [preq EXCEPT ![r].pc = "supplier"]
  /\ UNCHANGED <<products, categories, nextProductId, nextCategoryId, nonCat>>

\* UPDATE products SET ... WHERE id = $9 AND is_active = true: a second row
\* with the sku is error 23505, a category_id without a row error 23503; when
\* no row matches, result.rows[0] is undefined and reading its name throws
UpdateProduct(r) ==
  /\ preq[r].pc = "update"
  /\ LET id == preq[r].id
     IN IF ~products[id].is_active
        THEN /\ CatFail(r, [PgError("undef") EXCEPT !.name = "TypeError"])
             /\ products' = products
        ELSE IF ProductsBySku(preq[r].sku) \ {id} # {}
        THEN /\ CatFail(r, PgError("23505"))
             /\ products' = products
        ELSE IF preq[r].categoryId \notin DOMAIN categories
        THEN /\ CatFail(r, PgError("23503"))
             /\ products' = products
        ELSE /\ products' = [products EXCEPT
                               ![id].sku = preq[r].sku,
                               ![id].category_id = preq[r].categoryId,
                               ![id].quantity = preq[r].quantity]
             /\ CatRespond(r, preq[r], 200, "OK")
  /\ UNCHANGED <<categories, nextProductId, nextCategoryId, nonCat>>

\* DELETE /products/:id served while no catalog request is in flight
CatDeleteProduct(id) == CatNoneInFlight /\ DeleteProduct(id)

\* router.post('/') of the categories router up to its second statement
PostCategory(r, name) ==
  /\ CatArrive(r)
  /\ nextCategoryId <= MaxCategoryId
  /\ LET rec == [CatIdle EXCEPT !.kind = "postcat", !.name = name]
     IN IF ~categorySchema(name)
        THEN CatRespond(r, rec, 400, "VALIDATION_ERROR")
        ELSE IF CategoriesByName(name) # {}
        THEN CatRespond(r, rec, 409, "CATEGORY_EXISTS")
        ELSE preq' = [preq EXCEPT ![r] = [rec EXCEPT !.pc = "insertcat"]]
  /\ UNCHANGED <<products, categories, nextProductId, nextCategoryId, nonCat>>

\* INSERT INTO categories (name, description): status defaults to 'active'
InsertCategory(r) ==
  /\ preq[r].pc = "insertcat"
  /\ nextCategoryId' = nextCategoryId + 1
  /\ categories' = categories @@
       (nextCategoryId :> [name |-> preq[r].name, status |-> "active"])
  /\ CatRespond(r, [preq[r] EXCEPT !.id = nextCategoryId], 201, "OK")
  /\ UNCHANGED <<products, nextProductId, nonCat>>

\* router.delete('/:id') of the categories router up to its second statement
DeleteCategory(r, id) ==
  /\ CatArrive(r)
  /\ LET rec == [CatIdle EXCEPT !.kind = "deletecat", !.id = id]
     IN IF id \notin DOMAIN categories
        THEN CatRespond(r, rec, 404, "CATEGORY_NOT_FOUND")
        ELSE preq' = [preq EXCEPT ![r] = [rec EXCEPT !.pc = "updatecat"]]
  /\ UNCHANGED <<products, categories, nextProductId, nextCategoryId, nonCat>>

\* pool.query('UPDATE categories SET status = $1 ... WHERE id = $1',
\* ['inactive', id]): the text names one parameter, which is both the status
\* and the id, and the call binds two; the server refuses the statement
\* before it touches a row, and the catch block calls next(error)
UpdateCategoryStatus(r) ==
  /\ preq[r].pc = "updatecat"
  /\ CatFail(r, PgError("08P01"))
  /\ UNCHANGED <<products, categories, nextProductId, nextCategoryId, nonCat>>

CatResponseSent(r) ==
  /\ preq[r].pc = "done"
  /\ preq' = [preq EXCEPT ![r] = CatIdle]
  /\ UNCHANGED <<products, categories, nextProductId, nextCategoryId, nonCat>>

CatReceive(r) ==
  \/ \E b \in ProductBodies : PostProduct(r, b)
  \/ \E id \in ProductParams, b \in ProductBodies : PutProduct(r, id, b)
  \/ \E name \in CategoryNames \cup {"x"} : PostCategory(r, name)
  \/ \E id \in CategoryParams : DeleteCategory(r, id)

CatStatement(r) ==
  \/ CheckCategory(r)
  \/ CheckSupplier(r)
  \/ InsertProduct(r)
  \/ SkuCheck(r)
  \/ UpdateProduct(r)
  \/ InsertCategory(r)
  \/ UpdateCategoryStatus(r)

InitCat ==
  /\ categories = (1 :> [name |-> "Electronics", status |-> "active"])
                    @@ (2 :> [name |-> "Books", status |-> "active"])
  /\ nextCategoryId = 3
  /\ nextProductId = Cardinality(Products) + 1
  /\ preq = [r \in CatSlots |-> CatIdle]

NextCat ==
  \/ \E r \in CatSeqSlots :
        CatReceive(r) \/ CatStatement(r) \/ CatResponseSent(r)
  \/ \E id \in ProductParams : CatDeleteProduct(id)

\* ==== route guards (the middleware chain of every route) ================
\* every route of the five routers: whether its chain has authenticateToken,
\* the roles of its requireRole ({}: the chain has none), and what its
\* handler does: "public" (issues or registers credentials), "read",
\* "write", or "deactivate" (deletes a record or can set a status inactive)
Route(name, auth, roles, kind) ==
  [name |-> name, authenticateToken |-> auth, roles |-> roles, kind |-> kind]
AuthRoutes ==
  {Route("POST /auth/login", FALSE, {}, "public"),
   Route("POST /auth/register", FALSE, {}, "public"),
   Route("PUT /auth/users/:id", TRUE, {"admin"}, "deactivate"),
   Route("DELETE /auth/users/:id", TRUE, {"admin"}, "deactivate"),
   Route("GET /auth/users", TRUE, {"admin"}, "read"),
   Route("POST /auth/users", TRUE, {"admin"}, "write"),
   Route("PATCH /auth/users/:id/status", TRUE, {"admin"}, "deactivate")}
ProductRoutes ==
  {Route("GET /products", TRUE, {}, "read"),
   Route("GET /products/:id", TRUE, {}, "read"),
   Route("POST /products", TRUE, {"admin", "user"}, "write"),
   Route("PUT /products/:id", TRUE, {"admin", "user"}, "write"),
   Route("DELETE /products/:id", TRUE, {"admin"}, "deactivate")}
CategoryRoutes ==
  {Route("GET /categories", TRUE, {}, "read"),
   Route("GET /categories/:id", TRUE, {}, "read"),
   Route("POST /categories", TRUE, {"admin", "user"}, "write"),
   Route("PUT /categories/:id", TRUE, {"admin", "user"}, "write"),
   Route("DELETE /categories/:id", TRUE, {"admin"}, "deactivate")}
SupplierRoutes ==
  {Route("GET /suppliers", FALSE, {}, "read"),
   Route("GET /suppliers/:id", FALSE, {}, "read"),
   Route("POST /suppliers", FALSE, {}, "write"),
   Route("PUT /suppliers/:id", FALSE, {}, "deactivate"),
   Route("PATCH /suppliers/:id/status", FALSE, {}, "deactivate"),
   Route("DELETE /suppliers/:id", FALSE, {}, "deactivate")}
AnalyticsRoutes ==
  {Route("GET /analytics/dashboard", TRUE, {}, "read"),
   Route("GET /analytics/search", TRUE, {}, "read"),
   Route("GET /analytics/reports/stock-value", TRUE, {}, "read"),
   Route("GET /analytics/reports/movements", TRUE, {}, "read"),
   Route("GET /analytics/products/top", TRUE, {}, "read"),
   Route("GET /analytics/movements", TRUE, {}, "read")}
StockRoutes ==
  {Route("POST /stock/products/:id", TRUE, {"admin", "user"}, "write"),
   Route("GET /stock/low-stock", TRUE, {}, "read"),
   Route("GET /stock/movements", TRUE, {}, "read"),
   Route("GET /stock/products/:id/movements", TRUE, {}, "read"),
   Route("GET /stock/movements/:id", TRUE, {}, "read"),
   Route("PUT /stock/movements/:id", TRUE, {"admin", "user"}, "write"),
   Route("DELETE /stock/movements/:id", TRUE, {"admin"}, "deactivate")}
Routes ==
  AuthRoutes \cup ProductRoutes \cup CategoryRoutes \cup SupplierRoutes
    \cup AnalyticsRoutes \cup StockRoutes

\* who sends the request: no Authorization header, a token that does not
\* verify, or the valid token of a user with a role
Callers ==
  {[token |-> "none", role |-> "none"], [token |-> "invalid", role |-> "none"],
   [token |-> "valid", role |-> "user"], [token |-> "valid", role |-> "admin"]}

\* authenticateToken: lets the request pass when the bearer token verifies
authenticateToken(caller) == caller.token = "valid"
\* requireRole(roles): lets the request pass when the user's role is listed
requireRole(roles, caller) == caller.role \in roles

NoRoute == Route("none", FALSE, {}, "none")
GwIdle ==
  [pc |-> "idle", route |-> NoRoute,
   caller |-> [token |-> "none", role |-> "none"], bodyStatus |-> "none",
   status |-> 0]

\* a request reaches the first function of its route's chain
GwReceive(route, caller, bodyStatus) ==
  /\ gw.pc = "idle"
  /\ gw' = [GwIdle EXCEPT !.pc = "authenticate", !.route = route,
                          !.caller = caller, !.bodyStatus = bodyStatus]
  /\ UNCHANGED <<supplierStatus, nonGw>>

\* authenticateToken, where the chain has it
GwAuthenticate ==
  /\ gw.pc = "authenticate"
  /\ IF gw.route.authenticateToken /\ ~authenticateToken(gw.caller)
     THEN gw' = [gw EXCEPT !.pc = "done", !.status = 401]
     ELSE gw' = [gw EXCEPT !.pc = "role"]
  /\ UNCHANGED <<supplierStatus, nonGw>>

\* requireRole(roles), where the chain has it
GwRequireRole ==
  /\ gw.pc = "role"
  /\ IF gw.route.roles # {} /\ ~requireRole(gw.route.roles, gw.caller)
     THEN gw' = [gw EXCEPT !.pc = "done", !.status = 403]
     ELSE gw' = [gw EXCEPT !.pc = "handler"]
  /\ UNCHANGED <<supplierStatus, nonGw>>

\* the suppliers' status column after the handler of a suppliers route:
\* DELETE sets 'inactive', PATCH .../status and PUT set the body's status
SupplierStatusAfter(route, bodyStatus, id) ==
  IF route.name = "DELETE /suppliers/:id"
  THEN [supplierStatus EXCEPT ![id] = "inactive"]
  ELSE IF route.name \in {"PATCH /suppliers/:id/status", "PUT /suppliers/:id"}
          /\ bodyStatus \in Statuses
  THEN [supplierStatus EXCEPT ![id] = bodyStatus]
  ELSE supplierStatus

\* the route's handler runs
GwHandler ==
  /\ gw.pc = "handler"
  /\ gw' = [gw EXCEPT !.pc = "done", !.status = 200]
  /\ \E id \in Suppliers :
        supplierStatus' = SupplierStatusAfter(gw.route, gw.bodyStatus, id)
  /\ UNCHANGED nonGw

GwResponseSent ==
  /\ gw.pc = "done"
  /\ gw' = GwIdle
  /\ UNCHANGED <<supplierStatus, nonGw>>

InitGw ==
  /\ gw = GwIdle
  /\ supplierStatus = [s \in Suppliers |-> "active"]

NextGw ==
  \/ \E route \in Routes, caller \in Callers, b \in Statuses :
        GwReceive(route, caller, b)
  \/ GwAuthenticate
  \/ GwRequireRole
  \/ GwHandler
  \/ GwResponseSent

\* ==== GET /products (pagination) ========================================
DefaultPage == 1
DefaultLimit == 10
\* swagger of GET /products: limit has maximum 100
DocumentedMaxLimit == 100
\* the page and limit query parameters: absent, or a number
Absent == [given |-> FALSE, value |-> 0]
Given(v) == [given |-> TRUE, value |-> v]
QueryPages == {Absent} \cup {Given(v) : v \in {0, 1, 2}}
QueryLimits ==
  {Absent} \cup {Given(v) : v \in {0 - 1, 0, 1, DefaultLimit,
                                   DocumentedMaxLimit, DocumentedMaxLimit + 1}}

ListIdle ==
  [pc |-> "idle", page |-> 0, limit |-> 0, offset |-> 0, total |-> 0,
   rows |-> 0, pages |-> 0, status |-> 0, code |-> "none"]

\* const { page = 1, limit = 10 } = req.query
QueryValue(q, default) == IF q.given THEN q.value ELSE default
\* the value bound to LIMIT
SqlLimit(limit) == limit
\* the number of rows of SELECT ... LIMIT limit OFFSET offset over n rows
RowsReturned(n, limit, offset) ==
  LET left == IF n > offset THEN n - offset ELSE 0
  IN IF left < SqlLimit(limit) THEN left ELSE SqlLimit(limit)
\* Math.ceil(total / limit); 0 - 1: not a finite number (JSON null)
Pages(total, limit) ==
  IF limit > 0 THEN (total + limit - 1) \div limit
  ELSE IF limit < 0 /\ total > 0 THEN 0 - ((total - 1) \div (0 - limit))
  ELSE IF limit < 0 THEN 0
  ELSE 0 - 1

\* a product is created and active, while no list request is in flight
ProductListed ==
  /\ lreq.pc = "idle"
  /\ listed < MaxListed
  /\ listed' = listed + 1
  /\ UNCHANGED <<lreq, nonList>>

\* a product is soft-deleted, while no list request is in flight
ProductUnlisted ==
  /\ lreq.pc = "idle"
  /\ listed > 0
  /\ listed' = listed - 1
  /\ UNCHANGED <<lreq, nonList>>

\* router.get('/') up to the second query: the parameters and SELECT COUNT(*)
ListProducts(page, limit) ==
  /\ lreq.pc = "idle"
  /\ LET p == QueryValue(page, DefaultPage)
         l == QueryValue(limit, DefaultLimit)
     IN lreq' = [ListIdle EXCEPT !.pc = "rows", !.page = p, !.limit = l,
                                 !.offset = (p - 1) * l, !.total = listed]
  /\ UNCHANGED <<listed, nonList>>

\* SELECT ... LIMIT $n OFFSET $m and the response; a negative LIMIT or OFFSET
\* is an error of the statement
ListRows ==
  /\ lreq.pc = "rows"
  /\ IF lreq.limit < 0 \/ lreq.offset < 0
     THEN lreq' = [lreq EXCEPT !.pc = "done",
                     !.status = errorHandler(PgError("2201W")).status,
                     !.code = errorHandler(PgError("2201W")).code]
     ELSE lreq' = [lreq EXCEPT !.pc = "done", !.status = 200, !.code = "OK",
                     !.rows = RowsReturned(listed, lreq.limit, lreq.offset),
                     !.pages = Pages(lreq.total, lreq.limit)]
  /\ UNCHANGED <<listed, nonList>>

ListResponseSent ==
  /\ lreq.pc = "done"
  /\ lreq' = ListIdle
  /\ UNCHANGED <<listed, nonList>>

InitList == listed = 1 /\ lreq = ListIdle

NextList ==
  \/ ProductListed
  \/ ProductUnlisted
  \/ \E page \in QueryPages, limit \in QueryLimits : ListProducts(page, limit)
  \/ ListRows
  \/ ListResponseSent

\* ---- specifications ----------------------------------------------------
\* ==== StockListComponent (frontend, stock list) =========================
PageSize == 10
\* the movements of a response, as the number of its 'in' and 'out' entries
MovementLists ==
  {l \in [ins : 0..MaxLoaded, outs : 0..MaxLoaded] : l.ins + l.outs <= MaxLoaded}
MovementTypes == {"", "in", "out"}   \* selectedMovementType; "": no filter
PageArguments == (0 - 1)..(MaxLoaded \div PageSize + 2)

\* Math.ceil(a / b) for a >= 0 and b > 0
Ceil(a, b) == (a + b - 1) \div b

\* filteredMovements.length
FilteredLength(c) ==
  CASE c.selectedMovementType = "in" -> c.movements.ins
    [] c.selectedMovementType = "out" -> c.movements.outs
    [] OTHER -> c.movements.ins + c.movements.outs

\* calculateTotalPages()
calculateTotalPages(c) ==
  LET total == Ceil(FilteredLength(c), PageSize)
  IN [c EXCEPT !.totalPages = total,
               !.currentPage = IF c.currentPage > total
                               THEN (IF total # 0 THEN total ELSE 1)
                               ELSE c.currentPage]

\* loadMovements(): the next callback with response.data.movements
LoadMovementsNext(list) ==
  /\ component' = [calculateTotalPages([component EXCEPT !.movements = list])
                     EXCEPT !.call = "loadNext"]
  /\ UNCHANGED nonPage

\* loadMovements(): the next callback with a response that has no list
LoadMovementsNoList ==
  /\ component' = [component EXCEPT !.movements = [ins |-> 0, outs |-> 0],
                                    !.call = "loadNoList"]
  /\ UNCHANGED nonPage

\* loadMovements(): the error callback
LoadMovementsError ==
  /\ component' = [component EXCEPT !.call = "loadError"]
  /\ UNCHANGED nonPage

\* applyFilters(), the filter field holding what the form has bound to it
applyFilters(type) ==
  /\ component' = [calculateTotalPages([component EXCEPT
                                          !.selectedMovementType = type,
                                          !.currentPage = 1])
                     EXCEPT !.call = "applyFilters"]
  /\ UNCHANGED nonPage

\* clearFilters()
clearFilters ==
  /\ component' = [calculateTotalPages([component EXCEPT
                                          !.selectedMovementType = "",
                                          !.currentPage = 1])
                     EXCEPT !.call = "clearFilters"]
  /\ UNCHANGED nonPage

\* goToPage(page)
goToPage(page) ==
  /\ component' = [component EXCEPT
                     !.currentPage = IF page >= 1 /\ page <= component.totalPages
                                     THEN page ELSE @,
                     !.call = "goToPage"]
  /\ UNCHANGED nonPage

\* previousPage()
previousPage ==
  /\ component' = [component EXCEPT
                     !.currentPage = IF @ > 1 THEN @ - 1 ELSE @,
                     !.call = "previousPage"]
  /\ UNCHANGED nonPage

\* nextPage()
nextPage ==
  /\ component' = [component EXCEPT
                     !.currentPage = IF @ < component.totalPages THEN @ + 1 ELSE @,
                     !.call = "nextPage"]
  /\ UNCHANGED nonPage

\* the field initialisers of the class
InitPage ==
  component = [movements |-> [ins |-> 0, outs |-> 0],
               selectedMovementType |-> "", currentPage |-> 1,
               totalPages |-> 1, call |-> "new"]

NextPage ==
  \/ \E list \in MovementLists : LoadMovementsNext(list)
  \/ LoadMovementsNoList
  \/ LoadMovementsError
  \/ \E type \in MovementTypes : applyFilters(type)
  \/ clearFilters
  \/ \E page \in PageArguments : goToPage(page)
  \/ previousPage
  \/ nextPage

\* products inserted with their quantity, then the seeded movements applied
\* with UPDATE products SET quantity = quantity +/- $1
Init ==
  /\ \E seed \in Seeds :
        /\ created = [p \in Products |-> seed.created]
        /\ movements = seed.rows
  /\ products = [p \in Products |->
                   [quantity |-> created[p] + Net(RowsOf(movements, p)),
                    is_active |-> TRUE, sku |-> "LAPTOP-001",
                    category_id |-> 1]]
  /\ nextId = Cardinality(movements) + 1
  /\ req = [r \in Slots |-> Idle]
  /\ origin = [p \in Products |-> NoOrigin]
  /\ lastCommit \in SeqSlots
  /\ InitAuth
  /\ InitErr
  /\ InitCat
  /\ InitGw
  /\ InitList
  /\ InitPage

Receive(r) ==
  \/ \E id \in ProductIdParams, b \in Bodies :
        PostStock(r, id, b.quantity, b.type)
  \/ \E id \in MovementIds, b \in Bodies :
        PutMovement(r, id, b.quantity, b.type)
  \/ \E id \in MovementIds : DeleteMovement(r, id)

\* well-formed bodies only
ReceiveValid(r) ==
  \/ \E id \in Products, b \in {x \in Bodies : stockMovementSchema(x.quantity, x.type)} :
        PostStock(r, id, b.quantity, b.type)
  \/ \E id \in MovementIds, b \in {x \in Bodies : stockMovementSchema(x.quantity, x.type)} :
        PutMovement(r, id, b.quantity, b.type)
  \/ \E id \in MovementIds : DeleteMovement(r, id)

Statement(r) ==
  \/ UpdateProductQuantity(r)
  \/ InsertMovement(r)
  \/ UpdateMovementRow(r)
  \/ DeleteMovementRow(r)
  \/ Commit(r)

\* requests executed one at a time
Next ==
  \/ \E r \in SeqSlots : Receive(r) \/ Statement(r) \/ ResponseSent(r)
  \/ \E id \in Products : DeleteProductRequest(id)

Spec == Init /\ [][Next]_vars

\* requests interleaved statement by statement
NextConc ==
  \E r \in ConcSlots :
     ReceiveValid(r) \/ Statement(r) \/ DeadlockAbort(r) \/ Rollback(r)

SpecConc == Init /\ [][NextConc]_vars

\* the auth router, requests executed one at a time
SpecAuth == Init /\ [][NextAuth]_vars

\* errors handed to the error handler, one at a time
SpecErr == Init /\ [][NextErr]_vars

\* the products and categories routers, requests executed one at a time
SpecCat == Init /\ [][NextCat]_vars

\* requests passing the chains of their routes, one at a time
SpecGw == Init /\ [][NextGw]_vars

\* the product list, while products come and go
SpecList == Init /\ [][NextList]_vars

\* the calls on a StockListComponent
SpecPage == Init /\ [][NextPage]_vars

\* ---- steps of a request, as seen from outside ---------------------------
\* a request arrives in slot r and is answered or reaches pool.connect()
Arrives(r) == req[r].pc = "idle" /\ req'[r] # req[r]
\* the COMMIT of the request in slot r
Commits(r) == req[r].pc = "commit" /\ req'[r].pc = "done"
TablesUnchanged == products' = products /\ movements' = movements
Rejected(r, status, code) ==
  /\ req'[r].pc = "done" /\ req'[r].status = status /\ req'[r].code = code
  /\ TablesUnchanged
Answered(r, kind, status) ==
  req[r].pc = "done" /\ req[r].kind = kind /\ req[r].status = status
NewRow(r) ==
  [id |-> nextId - 1, product_id |-> req[r].id, quantity |-> req[r].quantity,
   type |-> req[r].type]

\* ---- C1 ------------------------------------------------------------------
\* C1: with requests executed one at a time, a well-formed POST
\* /stock/products/:id of type 'in' with quantity q on an active product
\* whose quantity is Q is never rejected, changes nothing before its COMMIT,
\* and its COMMIT sets the quantity to Q + q and adds exactly one movement
\* row (that product, type 'in', quantity q).
C1_StockIn ==
  [][\A r \in SeqSlots :
       /\ ( /\ Arrives(r)
            /\ req'[r].kind = "create" /\ req'[r].type = "in"
            /\ req'[r].quantity > 0
            /\ req'[r].id \in Products /\ products[req'[r].id].is_active )
          => /\ req'[r].pc = "c_update"
             /\ req'[r].cur = products[req'[r].id].quantity
             /\ TablesUnchanged
       /\ (InTx(r) /\ req[r].kind = "create" /\ req[r].type = "in")
          => IF Commits(r)
               THEN /\ req[r].cur = products[req[r].id].quantity
                    /\ products'[req[r].id].quantity = req[r].cur + req[r].quantity
                    /\ req'[r].status = 200
                    /\ NewRow(r) \notin movements
                    /\ movements' = movements \cup {NewRow(r)}
               ELSE TablesUnchanged /\ req'[r].pc \in {"c_update", "c_insert", "commit"}
    ]_vars

C1_Witness ==
  \E r \in SeqSlots :
    /\ Answered(r, "create", 200) /\ req[r].type = "in"
    /\ products[req[r].id].quantity = req[r].cur + req[r].quantity
    /\ req[r].old \in movements

\* ---- C2 ------------------------------------------------------------------
\* C2: with requests executed one at a time, a well-formed POST
\* /stock/products/:id of type 'out' with quantity q on an active product
\* whose quantity is Q: if q <= Q it is accepted and its COMMIT sets the
\* quantity to Q - q and adds one 'out' row of q; if q > Q it is answered
\* 400 INSUFFICIENT_STOCK and the quantity and the movement rows are unchanged.
C2_StockOut ==
  [][\A r \in SeqSlots :
       /\ ( /\ Arrives(r)
            /\ req'[r].kind = "create" /\ req'[r].type = "out"
            /\ req'[r].quantity > 0
            /\ req'[r].id \in Products /\ products[req'[r].id].is_active )
          => IF req'[r].quantity <= products[req'[r].id].quantity
               THEN /\ req'[r].pc = "c_update"
                    /\ req'[r].cur = products[req'[r].id].quantity
                    /\ TablesUnchanged
               ELSE Rejected(r, 400, "INSUFFICIENT_STOCK")
       /\ (InTx(r) /\ req[r].kind = "create" /\ req[r].type = "out")
          => IF Commits(r)
               THEN /\ req[r].cur = products[req[r].id].quantity
                    /\ products'[req[r].id].quantity = req[r].cur - req[r].quantity
                    /\ req'[r].status = 200
                    /\ NewRow(r) \notin movements
                    /\ movements' = movements \cup {NewRow(r)}
               ELSE TablesUnchanged /\ req'[r].pc \in {"c_update", "c_insert", "commit"}
    ]_vars

\* an 'out' of the whole stock has been accepted and left the product at 0
C2_Witness ==
  \E r \in SeqSlots :
    /\ Answered(r, "create", 200) /\ req[r].type = "out"
    /\ req[r].cur = req[r].quantity
    /\ products[req[r].id].quantity = 0
    /\ req[r].old \in movements

\* ---- C3 ------------------------------------------------------------------
\* C3: with requests executed one at a time, the quantity of every product
\* is never negative.
C3_QuantityNonNegative == \A p \in Products : products[p].quantity >= 0

\* ---- C4 ------------------------------------------------------------------
\* C4: with requests executed one at a time, the quantity of every product
\* equals the quantity it was created with plus the quantities of its
\* recorded 'in' movements minus the quantities of its recorded 'out'
\* movements.
C4_Ledger ==
  \A p \in Products :
    products[p].quantity = created[p] + Net(RowsOf(movements, p))

\* a movement has been edited or deleted and another one is still recorded
C4_Witness ==
  /\ \E r \in SeqSlots :
        req[r].pc = "done" /\ req[r].kind \in {"edit", "delete"} /\ req[r].status = 200
  /\ movements # {}
  /\ \E p \in Products : products[p].quantity # created[p]

\* ---- C5 ------------------------------------------------------------------
\* C5: with requests executed one at a time, the COMMIT of a PUT
\* /stock/movements/:id with (t1, q1) on a movement recorded as (t0, q0) of a
\* product whose quantity is Q leaves the product with
\* Q - effect(t0, q0) + effect(t1, q1), which is what POST
\* /stock/products/:id computes for (t1, q1), and accepts, on a product whose
\* quantity is Q - effect(t0, q0).
C5_EditReverseReapply ==
  [][\A r \in SeqSlots :
       (Commits(r) /\ req[r].kind = "edit" /\ HasRow(movements, req[r].id))
       => LET m0 == RowById(movements, req[r].id)
              Q == products[m0.product_id].quantity
              m1 == [type |-> req[r].type, quantity |-> req[r].quantity]
          IN /\ products'[m0.product_id].quantity = Q - Effect(m0) + Effect(m1)
             /\ ~InsufficientStock(Q - Effect(m0), m1.type, m1.quantity)
             /\ products'[m0.product_id].quantity =
                   CreateNewQuantity(Q - Effect(m0), m1.type, m1.quantity)
    ]_vars

\* an edit that changed the type of the movement has committed
C5_Witness ==
  \E r \in SeqSlots :
    /\ Answered(r, "edit", 200)
    /\ req[r].old.type # req[r].type
    /\ products[req[r].pid].quantity # req[r].cur

\* ---- C6 ------------------------------------------------------------------
\* C6: with requests executed one at a time, a well-formed PUT
\* /stock/movements/:id on a recorded movement goes on to its transaction
\* only when the quantity with the old movement reversed and the quantity
\* with the new movement then applied are both non-negative; otherwise it is
\* rejected and neither the movement row nor the quantity changes.
C6_EditChecksBoth ==
  [][\A r \in SeqSlots :
       ( /\ Arrives(r)
         /\ req'[r].kind = "edit"
         /\ req'[r].quantity > 0 /\ req'[r].type \in {"in", "out"}
         /\ HasRow(movements, req'[r].id) )
       => LET m0 == RowById(movements, req'[r].id)
              Q == products[m0.product_id].quantity
              m1 == [type |-> req'[r].type, quantity |-> req'[r].quantity]
              intermediate == Q - Effect(m0)
              final == intermediate + Effect(m1)
          IN /\ TablesUnchanged
             /\ (intermediate < 0 \/ final < 0) => req'[r].pc = "done"
    ]_vars

\* ---- C7 ------------------------------------------------------------------
\* C7: with requests executed one at a time, a DELETE /stock/movements/:id
\* on a recorded movement whose reversal would make the product quantity
\* negative is answered 400 NEGATIVE_STOCK, and the movement row and the
\* product quantity are unchanged.
C7_DeleteRejected ==
  [][\A r \in SeqSlots :
       ( /\ Arrives(r)
         /\ req'[r].kind = "delete"
         /\ HasRow(movements, req'[r].id) )
       => LET m == RowById(movements, req'[r].id)
              Q == products[m.product_id].quantity
          IN (Q - Effect(m) < 0)
             => /\ Rejected(r, 400, "NEGATIVE_STOCK")
                /\ m \in movements'
    ]_vars

\* the delete of an 'in' movement larger than the stock has been rejected
C7_Witness ==
  \E r \in SeqSlots :
    /\ Answered(r, "delete", 400) /\ req[r].code = "NEGATIVE_STOCK"
    /\ req[r].old.type = "in"
    /\ req[r].old \in movements
    /\ products[req[r].pid].quantity < req[r].old.quantity

\* ---- C8 ------------------------------------------------------------------
\* C8: with requests executed one at a time, a DELETE /stock/movements/:id
\* of the movement a POST /stock/products/:id created, with no committed
\* write on that product in between, is answered 200 and leaves the product
\* with the quantity and the movement rows it had before the creation.
C8_CreateThenDelete ==
  \A r \in SeqSlots :
    ( /\ req[r].pc = "done" /\ req[r].kind = "delete"
      /\ req[r].orig # NoOrigin /\ req[r].orig.id = req[r].id )
    => /\ req[r].status = 200
       /\ products[req[r].pid].quantity = req[r].orig.quantity
       /\ RowsOf(movements, req[r].pid) = req[r].orig.rows

\* ---- C9 ------------------------------------------------------------------
\* C9: with requests interleaved statement by statement, the tables change
\* only at the COMMIT of a request, and the tables after a COMMIT hold both
\* writes of the request: the product quantity it wrote and its movement
\* row change (the row inserted, the row carrying the edited values, the row
\* gone).  A request that is rolled back changes nothing.
C9_BothWritesOrNone ==
  [][/\ (\A r \in Slots : ~Commits(r)) => TablesUnchanged
     /\ \A r \in Slots :
          Commits(r)
          => /\ products'[req[r].pid].quantity = req[r].newQuantity
             /\ CASE req[r].kind = "create" ->
                       \E m \in movements' \ movements :
                          /\ m.product_id = req[r].id
                          /\ m.quantity = req[r].quantity
                          /\ m.type = req[r].type
                  [] req[r].kind = "edit" ->
                       \E m \in movements' :
                          /\ m.id = req[r].id
                          /\ m.quantity = req[r].quantity
                          /\ m.type = req[r].type
                  [] OTHER -> ~HasRow(movements', req[r].id)
    ]_vars

\* ---- C10 -----------------------------------------------------------------
\* C10: when two POST /stock/products/:id 'out' requests on one product have
\* read the same quantity Q, each asking for no more than Q, and the second
\* to commit had read before the first committed, then both are answered
\* 200, both movement rows are recorded, and the product quantity is Q minus
\* the quantity of the request that committed last.
ConcurrentOuts(r, o) ==
  /\ r # o
  /\ req[r].pc = "done" /\ req[o].pc = "done"
  /\ req[r].kind = "create" /\ req[o].kind = "create"
  /\ req[r].type = "out" /\ req[o].type = "out"
  /\ req[r].id = req[o].id
  /\ req[r].cur = req[o].cur
  /\ req[r].quantity <= req[r].cur /\ req[o].quantity <= req[o].cur
  /\ req[r].quantity > 0 /\ req[o].quantity > 0
  /\ req[r].id \in Products
  /\ lastCommit = r
  /\ req[r].stale

C10_LastWriterWins ==
  \A r, o \in Slots :
    ConcurrentOuts(r, o)
    => /\ req[r].status = 200 /\ req[o].status = 200
       /\ {req[r].old, req[o].old} \subseteq movements
       /\ req[r].old.id # req[o].old.id
       /\ req[r].old.quantity = req[r].quantity
       /\ req[o].old.quantity = req[o].quantity
       /\ products[req[r].id].quantity = req[r].cur - req[r].quantity

\* both committed, and the quantity misses the first request's movement
C10_Witness ==
  \E r, o \in Slots :
    /\ ConcurrentOuts(r, o)
    /\ req[r].status = 200 /\ req[o].status = 200
    /\ {req[r].old, req[o].old} \subseteq movements
    /\ products[req[r].id].quantity # req[r].cur - req[r].quantity - req[o].quantity

\* ---- steps of an auth request, as seen from outside ----------------------
AuthArrives(r, kind) ==
  ureq[r].pc = "idle" /\ ureq'[r] # ureq[r] /\ ureq'[r].kind = kind
AuthAnswered(r, kind, status) ==
  ureq[r].pc = "done" /\ ureq[r].kind = kind /\ ureq[r].status = status
UsersUnchanged == users' = users

\* ---- C11 -----------------------------------------------------------------
\* C11: a POST /auth/login with a well-formed body is answered 200 with a
\* token and the user payload of the stored user that has the email, exactly
\* when such a user exists and the password is the one its stored hash was
\* made from; otherwise it is answered 401 INVALID_CREDENTIALS with no token.
C11_Login ==
  [][\A r \in AuthSeqSlots :
       ( /\ AuthArrives(r, "login")
         /\ loginSchema(ureq'[r].email, ureq'[r].password) )
       => LET e == ureq'[r].email
              pw == ureq'[r].password
              match == {i \in DOMAIN users :
                          /\ users[i].email = e
                          /\ users[i].password_hash = BcryptHash(pw)}
          IN IF match # {}
             THEN /\ ureq'[r].pc = "done" /\ ureq'[r].status = 200
                  /\ ureq'[r].user.id \in match
                  /\ ureq'[r].user.email = e
                  /\ ureq'[r].user.role = users[ureq'[r].user.id].role
                  /\ ureq'[r].token =
                       [userId |-> ureq'[r].user.id, email |-> e]
             ELSE /\ ureq'[r].pc = "done" /\ ureq'[r].status = 401
                  /\ ureq'[r].code = "INVALID_CREDENTIALS"
                  /\ ureq'[r].token = NoToken]_vars

\* a registered user has logged in after an administrator changed the
\* password, with the new password
C11_Witness ==
  \E r \in AuthSeqSlots :
    /\ AuthAnswered(r, "login", 200)
    /\ ureq[r].token.userId = 2
    /\ ureq[r].password = "secret2"

\* ---- C18 -----------------------------------------------------------------
\* C18: the response of the error handler to an error is decided by the first
\* rule that matches, in the order Joi error, JsonWebTokenError,
\* TokenExpiredError, code 23505, code 23503, statusCode, anything else; it
\* has success false, an error code and message and a timestamp, and it is the
\* only response sent for the error.
C18_ErrorClassification ==
  eh.pc = "done" =>
    LET err == eh.err
        res == eh.res
        joi == err.isJoi
        jwt == ~joi /\ err.name = "JsonWebTokenError"
        expired == ~joi /\ ~jwt /\ err.name = "TokenExpiredError"
        unique == ~joi /\ ~jwt /\ ~expired /\ err.code = "23505"
        foreign == ~joi /\ ~jwt /\ ~expired /\ ~unique /\ err.code = "23503"
        custom == /\ ~joi /\ ~jwt /\ ~expired /\ ~unique /\ ~foreign
                  /\ err.statusCode # 0
        other == /\ ~joi /\ ~jwt /\ ~expired /\ ~unique /\ ~foreign
                 /\ ~custom
    IN /\ joi => res.status = 400 /\ res.code = "VALIDATION_ERROR"
       /\ jwt => res.status = 401 /\ res.code = "INVALID_TOKEN"
       /\ expired => res.status = 401 /\ res.code = "TOKEN_EXPIRED"
       /\ unique => res.status = 409 /\ res.code = "DUPLICATE_ENTRY"
       /\ foreign => res.status = 400 /\ res.code = "FOREIGN_KEY_VIOLATION"
       /\ custom => /\ res.status = err.statusCode
                    /\ res.code = IF err.code = "undef" THEN "CUSTOM_ERROR"
                                  ELSE err.code
       /\ other => res.status = 500 /\ res.code = "INTERNAL_SERVER_ERROR"
       /\ res.success = FALSE /\ res.timestamp
       /\ res.code \notin {"none", "undef"} /\ res.message # "none"
       /\ eh.sent = 1

\* an error that matches three rules has been answered by the first of them
C18_Witness ==
  /\ eh.pc = "done"
  /\ eh.err.name = "TokenExpiredError" /\ eh.err.code = "23505"
  /\ eh.err.statusCode = 404 /\ ~eh.err.isJoi
  /\ eh.res.code = "TOKEN_EXPIRED"

\* ---- C13 -----------------------------------------------------------------
\* C13: with requests executed one at a time, a DELETE /auth/users/:id, or a
\* PATCH /auth/users/:id/status with status 'inactive', that targets a user
\* with role admin while at most one admin user is active is answered 400
\* LAST_ADMIN, and no statement of the request changes the users table.
Deactivates(rec) ==
  rec.kind = "delete" \/ (rec.kind = "status" /\ rec.bodyStatus = "inactive")
C13_LastAdmin ==
  [][\A r \in AuthSeqSlots :
       /\ ( /\ \/ AuthArrives(r, "delete")
               \/ AuthArrives(r, "status")
            /\ Deactivates(ureq'[r])
            /\ ureq'[r].id \in DOMAIN users
            /\ users[ureq'[r].id].role = "admin" )
          => ureq'[r].pc = "s_count" /\ UsersUnchanged
       /\ ( /\ ureq[r].pc = "s_count"
            /\ ActiveAdminCount <= 1 )
          => /\ ureq'[r].pc = "done" /\ ureq'[r].status = 400
             /\ ureq'[r].code = "LAST_ADMIN"
             /\ UsersUnchanged]_vars

\* the deletion of the only active admin has been refused
C13_Witness ==
  \E r \in AuthSeqSlots :
    /\ AuthAnswered(r, "delete", 400) /\ ureq[r].code = "LAST_ADMIN"
    /\ users[ureq[r].id].role = "admin"
    /\ users[ureq[r].id].status = "active"
    /\ ActiveAdminCount = 1

\* ---- steps of a products or categories request, as seen from outside -----
CatArrives(r, kind) ==
  preq[r].pc = "idle" /\ preq'[r] # preq[r] /\ preq'[r].kind = kind
CatAnswered(r, kind, status) ==
  preq[r].pc = "done" /\ preq[r].kind = kind /\ preq[r].status = status
BodyOf(rec) ==
  [sku |-> rec.sku, categoryId |-> rec.categoryId,
   supplierId |-> rec.supplierId, quantity |-> rec.quantity]
HeldByOther(sku, id) ==
  \E j \in DOMAIN products : j # id /\ products[j].sku = sku

HasProducts(c) == \E i \in DOMAIN products : products[i].category_id = c
C16_DeleteCategoryWithProducts ==
  \A r \in CatSeqSlots :
    ( /\ preq[r].pc = "done" /\ preq[r].kind = "deletecat"
      /\ HasProducts(preq[r].id) )
    => /\ preq[r].status = 400
       /\ categories[preq[r].id].status = "active"

\* ---- C17 -----------------------------------------------------------------
\* C17: the UPDATE of a DELETE /categories/:id on an existing category with
\* no products sets exactly that category's status to 'inactive', keeps the
\* row and every other category as they were, and the request is answered
\* 200.
C17_DeleteEmptyCategory ==
  [][\A r \in CatSeqSlots :
       ( /\ preq[r].pc = "updatecat"
         /\ preq[r].id \in DOMAIN categories
         /\ ~HasProducts(preq[r].id) )
       => /\ preq'[r].pc = "done" /\ preq'[r].status = 200
          /\ categories' =
               [categories EXCEPT ![preq[r].id].status = "inactive"]]_vars

\* ---- C14 -----------------------------------------------------------------
\* C14: the handler of a route that deletes or deactivates a record, and any
\* change of a supplier's status to 'inactive', runs only for a caller whose
\* token verifies and whose role is admin.
IsAdmin(caller) == caller.token = "valid" /\ caller.role = "admin"
HandlerRuns == gw.pc = "handler" /\ gw'.pc = "done"
C14_AdminOnlyDestructive ==
  [][/\ (HandlerRuns /\ gw.route.kind = "deactivate") => IsAdmin(gw.caller)
     /\ \A s \in Suppliers :
          (supplierStatus[s] = "active" /\ supplierStatus'[s] = "inactive")
            => IsAdmin(gw.caller)]_vars

\* ---- C15 -----------------------------------------------------------------
\* C15: the handler of every route other than POST /auth/login and
\* POST /auth/register runs only for a caller whose token verifies.
C15_TokenRequired ==
  [][(HandlerRuns /\ gw.route.kind # "public")
       => gw.caller.token = "valid"]_vars

\* ---- C19 -----------------------------------------------------------------
\* C19: a GET /products answered 200 carries at most limit products, limit
\* being 10 when the parameter is absent, and never more than 100 products
\* whatever the limit parameter is; its pagination.pages is the least number
\* of pages of limit products that hold total products.
C19_PageSizeCapped ==
  (lreq.pc = "done" /\ lreq.status = 200)
    => /\ lreq.rows <= lreq.limit
       /\ lreq.rows <= DocumentedMaxLimit
       /\ lreq.limit > 0
            => /\ lreq.pages * lreq.limit >= lreq.total
               /\ (lreq.pages - 1) * lreq.limit < lreq.total

\* ---- C20 -----------------------------------------------------------------
\* C20: a POST /stock/products/:id or PUT /stock/movements/:id whose body
\* has a quantity that is zero or negative, or a type other than 'in' and
\* 'out', is answered 400 VALIDATION_ERROR in the step it arrives in, with
\* the quantity of every product and the rows of stock_movements as they
\* were; and every row a step adds to stock_movements has a positive
\* quantity and the type 'in' or 'out'.
WellFormed(quantity, type) == quantity >= 1 /\ type \in {"in", "out"}
DelProductBodies ==
  {b \in ProductBodies : b.categoryId = 1 /\ b.supplierId = 1}
DelStockBodies ==
  {b \in Bodies : b.quantity <= 1 /\ b.type \in {"in", "out"}}

\* the row test without its is_active condition
ActiveProductAnyRow(id) == id \in DOMAIN products

\* WHERE id = $1 AND is_active = true
ActiveProduct(id) == id \in DOMAIN products /\ products[id].is_active

\* router.get('/:id') of the products router
GetProduct(r, id) ==
  /\ CatArrive(r) /\ NoneInFlight
  /\ LET rec == [CatIdle EXCEPT !.kind = "get", !.id = id]
     IN IF ~ActiveProduct(id)
        THEN CatRespond(r, rec, 404, "PRODUCT_NOT_FOUND")
        ELSE CatRespond(r, [rec EXCEPT !.sku = products[id].sku,
                                       !.quantity = products[id].quantity,
                                       !.rows = {id}], 200, "OK")
  /\ UNCHANGED <<products, categories, nextProductId, nextCategoryId, nonCat>>

\* router.delete('/:id') of the products router: the UPDATE ... RETURNING
\* and the answer made from its rows
DeleteProductAnswered(r, id) ==
  /\ CatArrive(r) /\ NoneInFlight
  /\ LET rec == [CatIdle EXCEPT !.kind = "delete", !.id = id]
     IN IF ~ActiveProduct(id)
        THEN /\ products' = products
             /\ CatRespond(r, rec, 404, "PRODUCT_NOT_FOUND")
        ELSE /\ products' = [products EXCEPT ![id].is_active = FALSE]
             /\ CatRespond(r, rec, 200, "OK")
  /\ UNCHANGED <<categories, nextProductId, nextCategoryId, nonCat>>

\* router.get('/') of the products router with no query parameter: the
\* count query, then the rows query (page 1 of 10) and the answer
ListCatalog(r) ==
  /\ CatArrive(r) /\ NoneInFlight
  /\ preq' = [preq EXCEPT ![r] = [CatIdle EXCEPT !.kind = "list", !.pc = "rows"]]
  /\ UNCHANGED <<products, categories, nextProductId, nextCategoryId, nonCat>>

ListCatalogRows(r) ==
  /\ preq[r].pc = "rows"
  /\ CatRespond(r, [preq[r] EXCEPT !.rows = {id \in DOMAIN products :
                                                ActiveProduct(id)}], 200, "OK")
  /\ UNCHANGED <<products, categories, nextProductId, nextCategoryId, nonCat>>

\* PUT /products/:id and POST /stock/products/:id arriving while no other
\* request is in flight
DelPutProduct(r, id, b) == NoneInFlight /\ PutProduct(r, id, b)
DelPostStock(r, id, b) == CatNoneInFlight /\ PostStock(r, id, b.quantity, b.type)

NextDel ==
  \/ \E r \in CatSeqSlots :
        \/ \E id \in ProductParams : GetProduct(r, id)
        \/ \E id \in ProductParams : DeleteProductAnswered(r, id)
        \/ \E id \in ProductParams, b \in DelProductBodies : DelPutProduct(r, id, b)
        \/ ListCatalog(r)
        \/ ListCatalogRows(r)
        \/ SkuCheck(r)
        \/ CheckSupplier(r)
        \/ UpdateProduct(r)
        \/ CatResponseSent(r)
  \/ \E r \in SeqSlots :
        \/ \E id \in ProductIdParams, b \in DelStockBodies : DelPostStock(r, id, b)
        \/ UpdateProductQuantity(r)
        \/ InsertMovement(r)
        \/ Commit(r)
        \/ ResponseSent(r)

\* the routes that take a product id, requests executed one at a time
SpecDel == Init /\ [][NextDel]_vars

\* ---- C21 -----------------------------------------------------------------
\* C21: a DELETE /products/:id answered 200 keeps the row and sets its
\* is_active to false; from then on a GET, a well-formed PUT or a DELETE
\* /products/:id and a well-formed POST /stock/products/:id with that id are
\* answered 404 PRODUCT_NOT_FOUND in the step they arrive in, as for an id
\* without a row, with both tables as they were; and no GET /products answer
\* lists a product whose is_active is false.
Inactive(id) == id \in DOMAIN products /\ ~products[id].is_active
C22_ActiveAdminRemains ==
  \E i \in DOMAIN users :
     users[i].role = "admin" /\ users[i].status = "active"

\* ==== deactivations of users interleaved statement by statement ==========
\* the second admin is created through POST /auth/users by a request served
\* alone; then DELETE /auth/users/:id and PATCH /auth/users/:id/status with
\* status 'inactive' run concurrently, one each in the concurrent slots
NextAuthConc ==
  \/ \E r \in AuthSeqSlots :
        \/ \E b \in RegisterBodies : CreateUser(r, b)
        \/ InsertUser(r)
        \/ AuthResponseSent(r)
  \/ \E r \in AuthConcSlots :
        \/ \E id \in UserIdParams : DeleteUser(r, id)
        \/ \E id \in UserIdParams : PatchUserStatus(r, id, "inactive")
        \/ CountAdmins(r)
        \/ UpdateUserStatus(r)

SpecAuthConc == Init /\ [][NextAuthConc]_vars

\* ---- C23 -----------------------------------------------------------------
\* C23: when two concurrent deactivations (DELETE /auth/users/:id or PATCH
\* status 'inactive') of two different admins have both been answered 200,
\* the users table still holds a user whose role is 'admin' and whose status
\* is 'active'.
C23_ConcurrentDeactivation ==
  (/\ \A r \in AuthConcSlots :
         /\ ureq[r].pc = "done" /\ ureq[r].status = 200
         /\ ureq[r].user.role = "admin" /\ ureq[r].user.status = "active"
   /\ ureq[1].id # ureq[2].id)
    => \E i \in DOMAIN users :
          users[i].role = "admin" /\ users[i].status = "active"

\* ---- C24 -----------------------------------------------------------------
\* C24: while the concurrent requests are all POST /stock/products/:id, the
\* quantities of the committed 'out' rows of a product add up to at most its
\* quantity at creation plus the quantities of its committed 'in' rows, and
\* the quantity of the product is not negative.
RECURSIVE TotalQuantity(_)
TotalQuantity(ms) ==
  IF ms = {} THEN 0
  ELSE LET m == CHOOSE x \in ms : TRUE IN m.quantity + TotalQuantity(ms \ {m})
C24_NeverOversold ==
  (\A r \in ConcSlots : req[r].kind \in {"none", "create"})
    => \A p \in Products :
          /\ TotalQuantity({m \in RowsOf(movements, p) : m.type = "out"})
               <= created[p]
                    + TotalQuantity({m \in RowsOf(movements, p) : m.type = "in"})
          /\ products[p].quantity >= 0

\* ---- C25 -----------------------------------------------------------------
\* C25: no step of a request of the products router or of POST
\* /stock/products/:id takes a product whose quantity equals its quantity at
\* creation plus its 'in' quantities minus its 'out' quantities to a state
\* where the two differ.
C25_LedgerPreserved ==
  [][\A p \in Products :
        (products[p].quantity = created[p] + Net(RowsOf(movements, p)))
          => (products'[p].quantity = created'[p] + Net(RowsOf(movements', p)))]_vars

\* ---- C26 -----------------------------------------------------------------
\* C26: a request of the auth router that has stored a user row with role
\* 'admin' (POST /auth/register, POST /auth/users) or has set the role of a
\* user to 'admin' (PUT /auth/users/:id) came through a route whose chain
\* has authenticateToken and requireRole(['admin']).
RouteOfKind(kind) ==
  CASE kind = "register" -> "POST /auth/register"
    [] kind = "create" -> "POST /auth/users"
    [] OTHER -> "PUT /auth/users/:id"
C26_OnlyAdminsMakeAdmins ==
  \A r \in AuthSeqSlots :
     (/\ ureq[r].pc = "done" /\ ureq[r].status \in {200, 201}
      /\ ureq[r].kind \in {"register", "create", "put"}
      /\ ureq[r].role = "admin")
       => \A route \in AuthRoutes :
             route.name = RouteOfKind(ureq[r].kind)
               => route.authenticateToken /\ route.roles = {"admin"}

\* ==== logins among registrations and deactivations =======================
\* POST /auth/register stores active users only, so a user is inactive here
\* only through DELETE /auth/users/:id or PATCH /auth/users/:id/status
NextAuthLogin ==
  \E r \in AuthSeqSlots :
     \/ \E e \in BodyEmails, p \in BodyPasswords : Login(r, e, p)
     \/ \E b \in RegisterBodies : Register(r, b)
     \/ InsertUser(r)
     \/ \E id \in UserIdParams : DeleteUser(r, id)
     \/ \E id \in UserIdParams, st \in Statuses : PatchUserStatus(r, id, st)
     \/ CountAdmins(r)
     \/ UpdateUserStatus(r)
     \/ AuthResponseSent(r)

SpecAuthLogin == Init /\ [][NextAuthLogin]_vars

\* ---- C27 -----------------------------------------------------------------
\* C27: a POST /auth/login is answered with a token only for a user whose
\* status is 'active' when the request arrives: after a DELETE
\* /auth/users/:id or a PATCH status 'inactive' of a user, no login of that
\* user gets a token until a PATCH sets the status back to 'active'.
C27_NoTokenWhileInactive ==
  [][\A r \in AuthSeqSlots :
        (AuthArrives(r, "login") /\ ureq'[r].token # NoToken)
          => users[ureq'[r].token.userId].status = "active"]_vars

\* ---- C28 -----------------------------------------------------------------
\* C28: with requests executed one at a time, no step changes the quantity
\* or the movement rows of a product whose is_active is false.
C28_InactiveProductFrozen ==
  [][\A p \in Products :
        ~products[p].is_active
          => /\ products'[p].quantity = products[p].quantity
             /\ RowsOf(movements', p) = RowsOf(movements, p)]_vars

\* ==== requests of the products router interleaved statement by statement ==
\* POST /products and PUT /products/:id, one each in the concurrent slots
NextCatConc ==
  \E r \in CatConcSlots :
     \/ \E b \in DelProductBodies : PostProduct(r, b)
     \/ \E id \in ProductParams, b \in DelProductBodies : PutProduct(r, id, b)
     \/ CheckCategory(r)
     \/ CheckSupplier(r)
     \/ InsertProduct(r)
     \/ SkuCheck(r)
     \/ UpdateProduct(r)

SpecCatConc == Init /\ [][NextCatConc]_vars

\* ---- C29 -----------------------------------------------------------------
\* C29: with POST /products and PUT /products/:id interleaved statement by
\* statement, no step leaves two product rows with one sku; and an INSERT of
\* a sku that a row already has, issued by a request that passed its own sku
\* SELECT, stores no row and is answered 409 DUPLICATE_ENTRY.
C29_SkuUnique ==
  [][/\ \A i, j \in DOMAIN products' :
          i # j => products'[i].sku # products'[j].sku
     /\ \A r \in CatConcSlots :
          (/\ preq[r].pc = "insert" /\ preq'[r].pc = "done"
           /\ \E i \in DOMAIN products : products[i].sku = preq[r].sku)
            => /\ preq'[r].status = 409
               /\ preq'[r].code = "DUPLICATE_ENTRY"
               /\ products' = products]_vars

\* two POST /products with one new sku have both passed the sku SELECT; one
\* has stored its row and the other has been answered 409 DUPLICATE_ENTRY
C29_Witness ==
  /\ \A r \in CatConcSlots : preq[r].pc = "done" /\ preq[r].kind = "post"
  /\ preq[1].sku = preq[2].sku
  /\ \E r \in CatConcSlots : preq[r].status = 201
  /\ \E r \in CatConcSlots :
        preq[r].status = 409 /\ preq[r].code = "DUPLICATE_ENTRY"
  /\ Cardinality(ProductsBySku(preq[1].sku)) = 1

\* ---- C30 -----------------------------------------------------------------
\* C30: a call on a StockListComponent whose totalPages is the least number
\* of pages of pageSize entries that hold filteredMovements leaves it so,
\* and leaves currentPage at least 1 and at most the larger of 1 and
\* totalPages.
PagesMatch(c) ==
  /\ c.totalPages * PageSize >= FilteredLength(c)
  /\ (c.totalPages - 1) * PageSize < FilteredLength(c)
C30_PagesFollowList ==
  [][/\ PagesMatch(component) => PagesMatch(component')
     /\ component'.currentPage >= 1
     /\ component'.currentPage <= component'.totalPages
          \/ component'.currentPage <= 1]_vars

====
